---- MODULE Spec2Model ----
(***************************************************************************)
(* Cart store, cart aggregator and checkout of backend/server.js.          *)
(*                                                                         *)
(* The server keeps the cart either in SQLite (useDb = TRUE) or in the     *)
(* array mem.cart (useDb = FALSE, chosen once when initDb fails).  Every   *)
(* handler is an async function: with SQLite it yields at each awaited     *)
(* query, so handlers of different requests interleave query by query;     *)
(* with the in-memory store a handler runs to its response in one turn of  *)
(* the event loop.                                                         *)
(*                                                                         *)
(* JavaScript values are records [t, s, n]: t is the typeof tag, s the     *)
(* text of a string, n the value of a number counted in halves (2 is the   *)
(* number 1, 3 is the number 1.5), so that non-integer quantities exist.   *)
(* The product image and the receipt id/timestamp are carried through the  *)
(* code untouched and are left out.                                        *)
(***************************************************************************)
EXTENDS Integers, Sequences, FiniteSets, TLC

VARIABLES useDb, cartTable, nextRowId, memCart, req, res, eqDb, eqMem, eqRes

vars == <<useDb, cartTable, nextRowId, memCart, req, res, eqDb, eqMem, eqRes>>

storeVars == <<useDb, cartTable, nextRowId, memCart, req, res>>
eqVars == <<eqDb, eqMem, eqRes>>

\* Largest rowid the cart table hands out (AUTOINCREMENT never reuses one).
MaxRowId == 3

\* The requests the server is handling at once: two handlers, enough for a
\* checkout beside a writer and for two writers of one line.
Slots == {1, 2}

---------------------------------------------------------------------------
\* JavaScript / JSON values

Undefined == [t |-> "undefined", s |-> "", n |-> 0]
Null == [t |-> "null", s |-> "", n |-> 0]
NaN == [t |-> "number", s |-> "NaN", n |-> 0]
Str(s) == [t |-> "string", s |-> s, n |-> 0]
\* the number h/2
Num(h) == [t |-> "number", s |-> "", n |-> h]
\* the whole number k
Whole(k) == Num(2 * k)

IsNumber(v) == v.t = "number" /\ v.s = ""

\* !v
Falsy(v) ==
  \/ v.t \in {"undefined", "null"}
  \/ v.t = "string" /\ v.s = ""
  \/ v.t = "number" /\ (v.s = "NaN" \/ v.n = 0)

\* a * b ; anything that is not a number makes NaN
Mul(a, b) ==
  IF IsNumber(a) /\ IsNumber(b) THEN Num((a.n * b.n) \div 2) ELSE NaN

\* a + b on numbers
Add(a, b) ==
  IF IsNumber(a) /\ IsNumber(b) THEN Num(a.n + b.n) ELSE NaN

\* JSON.stringify of a number: NaN is written as null
JsonNumber(v) == IF v.t = "number" /\ v.s = "NaN" THEN Null ELSE v

---------------------------------------------------------------------------
\* Catalog

DEMO_USER == "demo"

\* rows of the products table after the seed of initDb
seed ==
  << [id |-> Str("p1"), name |-> Str("Bluetooth Headphones"), price |-> Whole(1999)],
     [id |-> Str("p2"), name |-> Str("Wireless Mouse"), price |-> Whole(699)],
     [id |-> Str("p3"), name |-> Str("Mechanical Keyboard"), price |-> Whole(3499)],
     [id |-> Str("p4"), name |-> Str("USB-C Cable"), price |-> Whole(299)],
     [id |-> Str("p5"), name |-> Str("Portable SSD 500GB"), price |-> Whole(4999)],
     [id |-> Str("p6"), name |-> Str("Smartwatch"), price |-> Whole(5999)],
     [id |-> Str("p7"), name |-> Str("Phone Stand"), price |-> Whole(249)] >>

\* mem.products
memProducts ==
  << [id |-> Str("p1"), name |-> Str("Bluetooth Headphones"), price |-> Whole(1999)],
     [id |-> Str("p2"), name |-> Str("Wireless Mouse"), price |-> Whole(699)],
     [id |-> Str("p3"), name |-> Str("Mechanical Keyboard"), price |-> Whole(3499)],
     [id |-> Str("p4"), name |-> Str("USB-C Cable"), price |-> Whole(299)],
     [id |-> Str("p5"), name |-> Str("Portable SSD 500GB"), price |-> Whole(4999)],
     [id |-> Str("p6"), name |-> Str("Smartwatch"), price |-> Whole(5999)],
     [id |-> Str("p7"), name |-> Str("Phone Stand"), price |-> Whole(249)] >>

\* Request inputs: two catalog ids, an id of no product and a missing
\* productId; the quantities -1, 0, 1, 1.5, 2 and the string "2".
PostProductIds == {Undefined, Str("p1"), Str("p2"), Str("p9")}
DeleteProductIds == {Str("p1"), Str("p2"), Str("p9")}
QtyInputs == {Str("2"), Num(-2), Num(0), Num(2), Num(3), Num(4)}

---------------------------------------------------------------------------
\* Helpers on sequences

RECURSIVE Filter(_, _)
\* s.filter(keep), keep given as the set of kept elements
Filter(s, keep) ==
  IF s = <<>> THEN <<>>
  ELSE IF Head(s) \in keep THEN <<Head(s)>> \o Filter(Tail(s), keep)
       ELSE Filter(Tail(s), keep)

Range(s) == {s[i] : i \in 1..Len(s)}

\* items.reduce((sum, it) => sum + it.price * it.qty, 0)
RECURSIVE Reduce(_, _)
Reduce(items, sum) ==
  IF items = <<>> THEN sum
  ELSE Reduce(Tail(items), Add(sum, Mul(Head(items).price, Head(items).qty)))

Total(items) == Reduce(items, Whole(0))

\* { items, total } with total = items.reduce(...)
CartOf(items) == [items |-> items, total |-> Total(items)]

---------------------------------------------------------------------------
\* SQLite statements.  The cart table is the sequence of its rows in rowid
\* order; a row is [id, userId, productId, qty].  A SELECT without ORDER BY
\* is taken to return rows in rowid order.

\* a value stored in a column declared INTEGER: a number with no fractional
\* part becomes an integer, any other number is kept as the REAL it is
IntegerAffinity(v) == IF v.n % 2 = 0 THEN Whole(v.n \div 2) ELSE v

\* SELECT id FROM products WHERE id = ?  (the row, or Undefined)
SelectProduct(productId) ==
  IF \E i \in 1..Len(seed) : seed[i].id = productId
  THEN [t |-> "object", s |-> productId.s, n |-> 0]
  ELSE Undefined

\* SELECT * FROM cart WHERE userId = ? AND productId = ?  (its rowid, or 0)
SelectExisting(table, productId) ==
  IF \E i \in 1..Len(table) :
       table[i].userId = DEMO_USER /\ table[i].productId = productId
  THEN table[CHOOSE i \in 1..Len(table) :
               table[i].userId = DEMO_USER /\ table[i].productId = productId].id
  ELSE 0

\* UPDATE cart SET qty = ? WHERE id = ?  (no row with that id: nothing changes)
UpdateQty(table, id, qty) ==
  [i \in 1..Len(table) |->
     IF table[i].id = id THEN [table[i] EXCEPT !.qty = IntegerAffinity(qty)]
     ELSE table[i]]

\* UNIQUE(userId, productId) and FOREIGN KEY(productId) REFERENCES products
InsertAllowed(table, productId) ==
  /\ ~ \E i \in 1..Len(table) :
         table[i].userId = DEMO_USER /\ table[i].productId = productId
  /\ \E i \in 1..Len(seed) : seed[i].id = productId

\* INSERT INTO cart (userId, productId, qty) VALUES (?,?,?)
InsertLine(table, rowid, productId, qty) ==
  Append(table, [id |-> rowid, userId |-> DEMO_USER, productId |-> productId,
                 qty |-> IntegerAffinity(qty)])

\* the DELETE without its productId condition
DeleteLineOfAnyProduct(table, productId) ==
  Filter(table, {row \in Range(table) : row.userId # DEMO_USER})

\* DELETE FROM cart WHERE userId = ? AND productId = ?
DeleteLine(table, productId) ==
  Filter(table, {row \in Range(table) :
                       ~(row.userId = DEMO_USER /\ row.productId = productId)})

\* the DELETE with its userId condition inverted
DeleteAllOfOthers(table) ==
  Filter(table, {row \in Range(table) : row.userId = DEMO_USER})

\* DELETE FROM cart WHERE userId = ?
DeleteAll(table) ==
  Filter(table, {row \in Range(table) : row.userId # DEMO_USER})

\* the price and name of the products row joined to a cart row
ProductRow(productId) ==
  seed[CHOOSE i \in 1..Len(seed) : seed[i].id = productId]

\* SELECT c.productId as id, p.name, p.price, p.image, c.qty FROM cart c
\* JOIN products p ON p.id = c.productId WHERE c.userId = ?
RECURSIVE JoinCart(_)
JoinCart(table) ==
  IF table = <<>> THEN <<>>
  ELSE IF Head(table).userId = DEMO_USER
          /\ \E i \in 1..Len(seed) : seed[i].id = Head(table).productId
       THEN << [id |-> Head(table).productId,
                name |-> ProductRow(Head(table).productId).name,
                price |-> ProductRow(Head(table).productId).price,
                qty |-> Head(table).qty] >> \o JoinCart(Tail(table))
       ELSE JoinCart(Tail(table))

---------------------------------------------------------------------------
\* In-memory store.  mem.cart is a sequence of [userId, productId, qty].

\* mem.cart.findIndex(c => c.userId === DEMO_USER && c.productId === productId)
FindIndex(cart, productId) ==
  IF \E i \in 1..Len(cart) :
       cart[i].userId = DEMO_USER /\ cart[i].productId = productId
  THEN CHOOSE i \in 1..Len(cart) :
         /\ cart[i].userId = DEMO_USER /\ cart[i].productId = productId
         /\ \A j \in 1..(i - 1) :
              ~(cart[j].userId = DEMO_USER /\ cart[j].productId = productId)
  ELSE 0

\* if (idx >= 0) mem.cart[idx].qty = qty; else mem.cart.push({...})
MemUpsert(cart, productId, qty) ==
  IF FindIndex(cart, productId) > 0
  THEN [cart EXCEPT ![FindIndex(cart, productId)].qty = qty]
  ELSE Append(cart, [userId |-> DEMO_USER, productId |-> productId, qty |-> qty])

\* mem.cart.filter(c => !(c.userId === DEMO_USER && c.productId === productId))
MemRemove(cart, productId) ==
  Filter(cart, {c \in Range(cart) :
                      ~(c.userId = DEMO_USER /\ c.productId = productId)})

\* mem.cart.filter(c => c.userId !== DEMO_USER)
MemClear(cart) ==
  Filter(cart, {c \in Range(cart) : c.userId # DEMO_USER})

\* map.get(productId) spread into an item: an id of no product gives no fields
MemProduct(productId) ==
  IF \E i \in 1..Len(memProducts) : memProducts[i].id = productId
  THEN memProducts[CHOOSE i \in 1..Len(memProducts) : memProducts[i].id = productId]
  ELSE [id |-> Undefined, name |-> Undefined, price |-> Undefined]

\* mem.cart.filter(c => c.userId === DEMO_USER)
\*         .map(c => ({ ...map.get(c.productId), qty: c.qty }))
RECURSIVE MemItems(_)
MemItems(cart) ==
  IF cart = <<>> THEN <<>>
  ELSE IF Head(cart).userId = DEMO_USER
       THEN << [id |-> MemProduct(Head(cart).productId).id,
                name |-> MemProduct(Head(cart).productId).name,
                price |-> MemProduct(Head(cart).productId).price,
                qty |-> Head(cart).qty] >> \o MemItems(Tail(cart))
       ELSE MemItems(Tail(cart))

---------------------------------------------------------------------------
\* Requests and responses

\* A request being handled: pc is the query its handler awaits.
\*   existing : rowid read by the upsert's SELECT (0: no row)
\*   cart     : the {items, total} the checkout resolved
\*   alone    : (checkout) no other request was in flight when it arrived and
\*              none has arrived since
\*   before   : (checkout, while alone) what GET /api/cart would have
\*              answered when it arrived
NoCart == [items |-> <<>>, total |-> Whole(0)]
Idle ==
  [pc |-> "idle", kind |-> "none", productId |-> Undefined, qty |-> Undefined,
   existing |-> 0, cart |-> NoCart, alone |-> FALSE, before |-> NoCart]

\* The response sent by the step that led to the current state (status 0: the
\* step sent none).
NoResponse ==
  [kind |-> "none", status |-> 0, items |-> <<>>, total |-> Undefined,
   error |-> "", alone |-> FALSE, before |-> NoCart]

\* res.status(code).json({ error })
ErrorResponse(r, code, error) ==
  [kind |-> r.kind, status |-> code, items |-> <<>>, total |-> Undefined,
   error |-> error, alone |-> r.alone, before |-> r.before]

\* res.json({ items, total }) and res.json(receipt)
OkResponse(r, cart) ==
  [kind |-> r.kind, status |-> 200, items |-> cart.items,
   total |-> JsonNumber(cart.total), error |-> "", alone |-> r.alone,
   before |-> r.before]

\* the body GET /api/cart answers from the store in use
CurrentView ==
  LET cart == IF useDb THEN CartOf(JoinCart(cartTable)) ELSE CartOf(MemItems(memCart))
  IN [items |-> cart.items, total |-> JsonNumber(cart.total)]

NoneInFlight == \A s \in Slots : req[s].pc = "idle"

Arrived(kind, productId, qty) ==
  [Idle EXCEPT !.kind = kind, !.productId = productId, !.qty = qty,
               !.alone = (kind = "checkout" /\ NoneInFlight),
               !.before = IF kind = "checkout" /\ NoneInFlight
                          THEN CurrentView ELSE NoCart]

\* the server hands an arriving request to a free handler: the first free slot
Free(r) ==
  /\ req[r].pc = "idle"
  /\ \A s \in Slots : s < r => req[s].pc # "idle"

\* slot r takes request record new; the requests in flight are no longer alone
Accept(r, new) ==
  [s \in Slots |->
     IF s = r THEN new
     ELSE [req[s] EXCEPT !.alone = FALSE, !.before = NoCart]]

\* slot r has answered; nothing else about the slots changes
Release(r) == [req EXCEPT ![r] = Idle]

\* slot r goes on to getCart(req, res), which reads nothing of the request
ToGetCart(r) ==
  [req EXCEPT ![r].pc = "getCart", ![r].productId = Undefined,
              ![r].qty = Undefined, ![r].existing = 0]

\* the validation without its qty <= 0 test
InvalidQtySignUnchecked(productId, qty) ==
  Falsy(productId) \/ qty.t # "number"

\* !productId || typeof qty !== 'number' || qty <= 0
Invalid(productId, qty) ==
  Falsy(productId) \/ qty.t # "number" \/ (qty.s = "" /\ qty.n <= 0)

Init ==
  /\ useDb \in BOOLEAN
  /\ cartTable = <<>>
  /\ nextRowId = 1
  /\ memCart = <<>>
  /\ req = [s \in Slots |-> Idle]
  /\ res = NoResponse
  /\ eqDb = [table |-> <<>>, rowid |-> 1]
  /\ eqMem = <<>>
  /\ eqRes = [db |-> NoResponse, mem |-> NoResponse]

\* app.post('/api/cart'): the handler up to its first await
PostCart(r, productId, qty) ==
  /\ Free(r)
  /\ LET new == Arrived("postCart", productId, qty) IN
     IF Invalid(productId, qty)
     THEN /\ res' = ErrorResponse(new, 400, "productId and qty>0 required")
          /\ req' = Accept(r, Idle)
          /\ UNCHANGED <<cartTable, nextRowId, memCart>>
     ELSE IF useDb
     THEN /\ req' = Accept(r, [new EXCEPT !.pc = "getProduct"])
          /\ res' = NoResponse
          /\ UNCHANGED <<cartTable, nextRowId, memCart>>
     ELSE /\ memCart' = MemUpsert(memCart, productId, qty)
          /\ res' = OkResponse(new, CartOf(MemItems(memCart')))
          /\ req' = Accept(r, Idle)
          /\ UNCHANGED <<cartTable, nextRowId>>
  /\ UNCHANGED <<useDb, eqVars>>

\* const p = await get(`SELECT id FROM products WHERE id = ?;`)
PostCartGetProduct(r) ==
  /\ req[r].pc = "getProduct"
  /\ IF Falsy(SelectProduct(req[r].productId))
     THEN /\ res' = ErrorResponse(req[r], 404, "Product not found")
          /\ req' = Release(r)
     ELSE /\ res' = NoResponse
          /\ req' = [req EXCEPT ![r].pc = "getExisting"]
  /\ UNCHANGED <<useDb, cartTable, nextRowId, memCart, eqVars>>

\* const existing = await get(`SELECT * FROM cart WHERE userId = ? AND productId = ?;`)
PostCartGetExisting(r) ==
  /\ req[r].pc = "getExisting"
  /\ req' = [req EXCEPT ![r].pc = "write",
                        ![r].existing = SelectExisting(cartTable, req[r].productId)]
  /\ res' = NoResponse
  /\ UNCHANGED <<useDb, cartTable, nextRowId, memCart, eqVars>>

\* await run(`UPDATE cart SET qty = ? WHERE id = ?;`)
PostCartUpdate(r) ==
  /\ req[r].pc = "write"
  /\ req[r].existing # 0
  /\ cartTable' = UpdateQty(cartTable, req[r].existing, req[r].qty)
  /\ req' = ToGetCart(r)
  /\ res' = NoResponse
  /\ UNCHANGED <<useDb, nextRowId, memCart, eqVars>>

\* await run(`INSERT INTO cart (userId, productId, qty) VALUES (?,?,?);`)
\* a constraint violation rejects the promise: catch, 500
PostCartInsert(r) ==
  /\ req[r].pc = "write"
  /\ req[r].existing = 0
  /\ IF InsertAllowed(cartTable, req[r].productId)
     THEN /\ nextRowId <= MaxRowId
          /\ cartTable' = InsertLine(cartTable, nextRowId, req[r].productId, req[r].qty)
          /\ nextRowId' = nextRowId + 1
          /\ req' = ToGetCart(r)
          /\ res' = NoResponse
     ELSE /\ res' = ErrorResponse(req[r], 500, "Failed to update cart")
          /\ req' = Release(r)
          /\ UNCHANGED <<cartTable, nextRowId>>
  /\ UNCHANGED <<useDb, memCart, eqVars>>

\* app.delete('/api/cart/:id'): the handler up to its first await
DeleteCart(r, productId) ==
  /\ Free(r)
  /\ LET new == Arrived("deleteCart", productId, Undefined) IN
     IF useDb
     THEN /\ req' = Accept(r, [new EXCEPT !.pc = "delete"])
          /\ res' = NoResponse
          /\ UNCHANGED memCart
     ELSE /\ memCart' = MemRemove(memCart, productId)
          /\ res' = OkResponse(new, CartOf(MemItems(memCart')))
          /\ req' = Accept(r, Idle)
  /\ UNCHANGED <<useDb, cartTable, nextRowId, eqVars>>

\* await run(`DELETE FROM cart WHERE userId = ? AND productId = ?;`)
DeleteCartRun(r) ==
  /\ req[r].pc = "delete"
  /\ cartTable' = DeleteLine(cartTable, req[r].productId)
  /\ req' = ToGetCart(r)
  /\ res' = NoResponse
  /\ UNCHANGED <<useDb, nextRowId, memCart, eqVars>>

\* app.get('/api/cart'): getCart up to its await
GetCart(r) ==
  /\ Free(r)
  /\ LET new == Arrived("getCart", Undefined, Undefined) IN
     IF useDb
     THEN /\ req' = Accept(r, [new EXCEPT !.pc = "getCart"])
          /\ res' = NoResponse
     ELSE /\ res' = OkResponse(new, CartOf(MemItems(memCart)))
          /\ req' = Accept(r, Idle)
  /\ UNCHANGED <<useDb, cartTable, nextRowId, memCart, eqVars>>

\* getCart: const rows = await all(`SELECT ... JOIN ...`); res.json({ items, total })
GetCartRows(r) ==
  /\ req[r].pc = "getCart"
  /\ res' = OkResponse(req[r], CartOf(JoinCart(cartTable)))
  /\ req' = Release(r)
  /\ UNCHANGED <<useDb, cartTable, nextRowId, memCart, eqVars>>

\* app.post('/api/checkout').  In memory the snapshot is taken without a
\* query; the await of the already resolved promise resumes the handler
\* before any other request is dispatched, and the cart is cleared.
Checkout(r) ==
  /\ Free(r)
  /\ LET new == Arrived("checkout", Undefined, Undefined) IN
     IF useDb
     THEN /\ req' = Accept(r, [new EXCEPT !.pc = "snapshot"])
          /\ res' = NoResponse
          /\ UNCHANGED memCart
     ELSE /\ memCart' = MemClear(memCart)
          /\ res' = OkResponse(new, CartOf(MemItems(memCart)))
          /\ req' = Accept(r, Idle)
  /\ UNCHANGED <<useDb, cartTable, nextRowId, eqVars>>

\* const rows = await all(...); resolve({ items, total }); the receipt is built
CheckoutSnapshot(r) ==
  /\ req[r].pc = "snapshot"
  /\ req' = [req EXCEPT ![r].pc = "clear",
                        ![r].cart = CartOf(JoinCart(cartTable))]
  /\ res' = NoResponse
  /\ UNCHANGED <<useDb, cartTable, nextRowId, memCart, eqVars>>

\* await run(`DELETE FROM cart WHERE userId = ?;`); res.json(receipt)
CheckoutClear(r) ==
  /\ req[r].pc = "clear"
  /\ cartTable' = DeleteAll(cartTable)
  /\ res' = OkResponse(req[r], req[r].cart)
  /\ req' = Release(r)
  /\ UNCHANGED <<useDb, nextRowId, memCart, eqVars>>

Next ==
  \/ \E r \in Slots, productId \in PostProductIds, qty \in QtyInputs :
       PostCart(r, productId, qty)
  \/ \E r \in Slots : PostCartGetProduct(r)
  \/ \E r \in Slots : PostCartGetExisting(r)
  \/ \E r \in Slots : PostCartUpdate(r)
  \/ \E r \in Slots : PostCartInsert(r)
  \/ \E r \in Slots, productId \in DeleteProductIds : DeleteCart(r, productId)
  \/ \E r \in Slots : DeleteCartRun(r)
  \/ \E r \in Slots : GetCart(r)
  \/ \E r \in Slots : GetCartRows(r)
  \/ \E r \in Slots : Checkout(r)
  \/ \E r \in Slots : CheckoutSnapshot(r)
  \/ \E r \in Slots : CheckoutClear(r)

Spec == Init /\ [][Next]_vars

---------------------------------------------------------------------------
\* Store failures: an awaited query rejects.

\* app.post('/api/cart'): catch (e) -> 500
PostCartFails(r) ==
  /\ req[r].pc \in {"getProduct", "getExisting", "write"}
  /\ res' = ErrorResponse(req[r], 500, "Failed to update cart")
  /\ req' = Release(r)
  /\ UNCHANGED <<useDb, cartTable, nextRowId, memCart, eqVars>>

\* app.delete('/api/cart/:id'): catch (e) -> 500
DeleteCartFails(r) ==
  /\ req[r].pc = "delete"
  /\ res' = ErrorResponse(req[r], 500, "Failed to remove item")
  /\ req' = Release(r)
  /\ UNCHANGED <<useDb, cartTable, nextRowId, memCart, eqVars>>

\* getCart: catch (e) -> 500
GetCartFails(r) ==
  /\ req[r].pc = "getCart"
  /\ res' = ErrorResponse(req[r], 500, "Failed to get cart")
  /\ req' = Release(r)
  /\ UNCHANGED <<useDb, cartTable, nextRowId, memCart, eqVars>>

\* checkout, reading the cart: all(...) rejects inside the inner async
\* function, whose promise nobody awaits; resolve is never called, so the
\* handler stays at `await new Promise(...)` and its catch is never entered.
\* (Where the runtime ends the process on an unhandled rejection the request
\* gets no response either.)
CheckoutSnapshotFails(r) ==
  /\ req[r].pc = "snapshot"
  /\ req' = [req EXCEPT ![r].pc = "orphaned"]
  /\ res' = NoResponse
  /\ UNCHANGED <<useDb, cartTable, nextRowId, memCart, eqVars>>

\* checkout, clearing the cart: run(DELETE) rejects: catch (e) -> 500
CheckoutClearFails(r) ==
  /\ req[r].pc = "clear"
  /\ res' = ErrorResponse(req[r], 500, "Checkout failed")
  /\ req' = Release(r)
  /\ UNCHANGED <<useDb, cartTable, nextRowId, memCart, eqVars>>

NextFault ==
  \/ Next
  \/ \E r \in Slots : PostCartFails(r)
  \/ \E r \in Slots : DeleteCartFails(r)
  \/ \E r \in Slots : GetCartFails(r)
  \/ \E r \in Slots : CheckoutSnapshotFails(r)
  \/ \E r \in Slots : CheckoutClearFails(r)

SpecFault == Init /\ [][NextFault]_vars

---------------------------------------------------------------------------
\* The two backends side by side: one server with SQLite (eqDb), one that
\* fell back to memory (eqMem), given the same requests one after another.

Request(kind) == [Idle EXCEPT !.kind = kind]

\* POST /api/cart from arrival to response, SQLite
DbPostCart(db, productId, qty) ==
  IF Invalid(productId, qty)
  THEN [db |-> db,
        res |-> ErrorResponse(Request("postCart"), 400, "productId and qty>0 required")]
  ELSE IF Falsy(SelectProduct(productId))
  THEN [db |-> db, res |-> ErrorResponse(Request("postCart"), 404, "Product not found")]
  ELSE IF SelectExisting(db.table, productId) # 0
  THEN LET t == UpdateQty(db.table, SelectExisting(db.table, productId), qty) IN
       [db |-> [db EXCEPT !.table = t],
        res |-> OkResponse(Request("postCart"), CartOf(JoinCart(t)))]
  ELSE IF InsertAllowed(db.table, productId)
  THEN LET t == InsertLine(db.table, db.rowid, productId, qty) IN
       [db |-> [table |-> t, rowid |-> db.rowid + 1],
        res |-> OkResponse(Request("postCart"), CartOf(JoinCart(t)))]
  ELSE [db |-> db, res |-> ErrorResponse(Request("postCart"), 500, "Failed to update cart")]

\* POST /api/cart from arrival to response, in memory
MemPostCart(cart, productId, qty) ==
  IF Invalid(productId, qty)
  THEN [cart |-> cart,
        res |-> ErrorResponse(Request("postCart"), 400, "productId and qty>0 required")]
  ELSE LET c == MemUpsert(cart, productId, qty) IN
       [cart |-> c, res |-> OkResponse(Request("postCart"), CartOf(MemItems(c)))]

EqPostCart(productId, qty) ==
  /\ DbPostCart(eqDb, productId, qty).db.rowid <= MaxRowId + 1
  /\ eqDb' = DbPostCart(eqDb, productId, qty).db
  /\ eqMem' = MemPostCart(eqMem, productId, qty).cart
  /\ eqRes' = [db |-> DbPostCart(eqDb, productId, qty).res,
               mem |-> MemPostCart(eqMem, productId, qty).res]
  /\ UNCHANGED storeVars

EqDeleteCart(productId) ==
  /\ eqDb' = [eqDb EXCEPT !.table = DeleteLine(eqDb.table, productId)]
  /\ eqMem' = MemRemove(eqMem, productId)
  /\ eqRes' = [db |-> OkResponse(Request("deleteCart"), CartOf(JoinCart(eqDb'.table))),
               mem |-> OkResponse(Request("deleteCart"), CartOf(MemItems(eqMem')))]
  /\ UNCHANGED storeVars

EqGetCart ==
  /\ eqRes' = [db |-> OkResponse(Request("getCart"), CartOf(JoinCart(eqDb.table))),
               mem |-> OkResponse(Request("getCart"), CartOf(MemItems(eqMem)))]
  /\ UNCHANGED <<eqDb, eqMem, storeVars>>

EqCheckout ==
  /\ eqDb' = [eqDb EXCEPT !.table = DeleteAll(eqDb.table)]
  /\ eqMem' = MemClear(eqMem)
  /\ eqRes' = [db |-> OkResponse(Request("checkout"), CartOf(JoinCart(eqDb.table))),
               mem |-> OkResponse(Request("checkout"), CartOf(MemItems(eqMem)))]
  /\ UNCHANGED storeVars

NextEq ==
  \/ \E productId \in PostProductIds, qty \in QtyInputs : EqPostCart(productId, qty)
  \/ \E productId \in DeleteProductIds : EqDeleteCart(productId)
  \/ EqGetCart
  \/ EqCheckout

SpecEq == Init /\ [][NextEq]_vars

---------------------------------------------------------------------------
\* Properties

\* the ids of the catalog products
CatalogIds == {seed[i].id : i \in 1..Len(seed)}

\* the demo user's lines of the store in use, as a sequence of [productId, qty]
Lines ==
  IF useDb
  THEN [i \in 1..Len(cartTable) |->
          [productId |-> cartTable[i].productId, qty |-> cartTable[i].qty]]
  ELSE [i \in 1..Len(memCart) |->
          [productId |-> memCart[i].productId, qty |-> memCart[i].qty]]

\* the lines of a store value (table or mem.cart) that are for productId
LinesFor(store, productId) ==
  {i \in 1..Len(store) : store[i].userId = DEMO_USER /\ store[i].productId = productId}

ExactlyOneLine(store, productId, qty) ==
  /\ Cardinality(LinesFor(store, productId)) = 1
  /\ \A i \in LinesFor(store, productId) : store[i].qty = qty

NoTwoLines ==
  /\ \A p \in DeleteProductIds : Cardinality(LinesFor(cartTable, p)) <= 1
  /\ \A p \in DeleteProductIds : Cardinality(LinesFor(memCart, p)) <= 1

\* C1: after a successful POST /cart {productId: p, qty: q} with p a catalog
\* id and q > 0, the cart holds exactly one line for p and its qty is q; and
\* the cart never holds two lines for one (userId, productId), under every
\* interleaving and in either backend.  The first half is stated at the write
\* of a request that goes on to answer 200.
C1_UpsertReplaces ==
  /\ [][\A r \in Slots :
          (req[r].pc = "write" /\ req'[r].pc = "getCart")
            => ExactlyOneLine(cartTable', req[r].productId, req[r].qty)]_vars
  /\ [][\A r \in Slots, p \in PostProductIds, q \in QtyInputs :
          (~useDb /\ PostCart(r, p, q) /\ res'.status = 200 /\ p \in CatalogIds)
            => ExactlyOneLine(memCart', p, q)]_vars
  /\ []NoTwoLines

\* C2: POST /cart with a productId of no catalog product answers 404 and
\* leaves the cart unchanged in either backend; every cart line's productId
\* is the id of a catalog product.
C2_UnknownProductRejected ==
  /\ [][\A r \in Slots, p \in PostProductIds, q \in QtyInputs :
          (PostCart(r, p, q) /\ ~Invalid(p, q) /\ p \notin CatalogIds /\ ~useDb)
            => (res'.status = 404 /\ memCart' = memCart)]_vars
  /\ [][\A r \in Slots :
          (req[r].pc = "getProduct" /\ req[r].productId \notin CatalogIds
             /\ req'[r].pc # "getProduct")
            => (res'.status = 404 /\ cartTable' = cartTable)]_vars
  /\ [](\A i \in 1..Len(Lines) : Lines[i].productId \in CatalogIds)

\* the inputs C3 is about: productId missing, qty not a number, zero or negative
BadInput(productId, qty) ==
  \/ productId.t = "undefined"
  \/ qty.t # "number"
  \/ qty.n <= 0

\* C3: POST /cart whose productId is missing, or whose qty is 0, negative or
\* not a number, answers 400 with an {error} body and leaves the cart exactly
\* as it was.
C3_BadInputRejected ==
  [][(\E r \in Slots, p \in PostProductIds, q \in QtyInputs :
        BadInput(p, q) /\ PostCart(r, p, q))
       => /\ res'.status = 400
          /\ res'.error # ""
          /\ cartTable' = cartTable
          /\ memCart' = memCart]_vars

\* a 400 was just answered while the cart holds a line
C3_Witness ==
  /\ res.kind = "postCart"
  /\ res.status = 400
  /\ Len(Lines) >= 1

\* C4: a successful POST /checkout that ran with no other request in flight
\* returns the items and total GET /cart showed just before it, and leaves
\* the demo user's cart empty; on an empty cart it returns items = [] and
\* total = 0.
C4_CheckoutReceipt ==
  (res.kind = "checkout" /\ res.status = 200 /\ res.alone)
    => /\ res.items = res.before.items
       /\ res.total = res.before.total
       /\ Len(Lines) = 0
       /\ (res.before.items = <<>> => (res.items = <<>> /\ res.total = Whole(0)))

\* a checkout that ran alone just returned a receipt of two items
C4_Witness ==
  /\ res.kind = "checkout"
  /\ res.status = 200
  /\ res.alone
  /\ Len(res.items) = 2

\* the sum of price x qty over items, in halves, when every price is a number
RECURSIVE SumHalves(_)
SumHalves(items) ==
  IF items = <<>> THEN 0
  ELSE (Head(items).price.n * Head(items).qty.n) \div 2 + SumHalves(Tail(items))

\* C5: the view answered by GET /cart, POST /cart and DELETE /cart/{id} has
\* total = sum of price x qty over the items it returns, and its items are
\* the cart's lines as they are after the request's own mutation.
C5_ViewIsCurrent ==
  (res.status = 200 /\ res.kind \in {"getCart", "postCart", "deleteCart"})
    => /\ Len(res.items) = Len(Lines)
       /\ \A i \in 1..Len(Lines) :
            /\ res.items[i].id = Lines[i].productId
            /\ res.items[i].qty = Lines[i].qty
            /\ IsNumber(res.items[i].price)
       /\ IsNumber(res.total)
       /\ res.total.n = SumHalves(res.items)

\* C6: from an empty cart, every sequence of requests gets the same status
\* codes, items and totals from the in-memory backend as from SQLite.
C6_BackendsAgree ==
  /\ eqRes.db.status = eqRes.mem.status
  /\ eqRes.db.items = eqRes.mem.items
  /\ eqRes.db.total = eqRes.mem.total

\* C7: when the cart read or the cart delete of POST /checkout fails, the
\* request gets a 500 response with an {error} body and no receipt; no
\* checkout is left without a response.
C7_CheckoutFailureAnswered ==
  /\ \A r \in Slots : req[r].pc # "orphaned"
  /\ (res.kind = "checkout" /\ res.status # 200 /\ res.status # 0)
       => (res.status = 500 /\ res.error # "" /\ res.items = <<>>)

\* new is old without its lines for productId, every other line untouched
RemovedOnly(old, new, productId) ==
  /\ Range(new) = {l \in Range(old) : l.productId # productId}
  /\ (LinesFor(old, productId) = {} => new = old)

\* C8: DELETE /cart/{productId} with no line for productId answers 200 with
\* the {items, total} shape and leaves the cart unchanged; with a line, only
\* that line is deleted and every other line is unchanged.
C8_DeleteFrame ==
  [][/\ \A r \in Slots :
          (req[r].pc = "delete" /\ req'[r].pc = "getCart")
            => RemovedOnly(cartTable, cartTable', req[r].productId)
     /\ \A r \in Slots, p \in DeleteProductIds :
          (~useDb /\ DeleteCart(r, p)) => RemovedOnly(memCart, memCart', p)
     /\ res'.kind = "deleteCart"
          => /\ res'.status = 200
             /\ res'.error = ""
             /\ res'.total.t \in {"number", "null"}
             /\ Len(res'.items) = Len(Lines')]_vars

\* a DELETE was just answered 200 and one line is left in the cart
C8_Witness ==
  /\ res.kind = "deleteCart"
  /\ res.status = 200
  /\ Len(Lines) = 1

\* C9: every cart line has a qty that is an integer greater than 0.
C9_QtyPositiveInteger ==
  \A i \in 1..Len(Lines) :
    /\ IsNumber(Lines[i].qty)
    /\ Lines[i].qty.n > 0
    /\ Lines[i].qty.n % 2 = 0

\* C10: every cart line deleted by a checkout's clear step is in the receipt
\* it returns, with the qty it had when deleted.
C10_CheckoutAtomic ==
  [][\A r \in Slots :
       (req[r].pc = "clear" /\ res'.kind = "checkout" /\ res'.status = 200
          /\ req'[r].pc = "idle")
         => \A i \in 1..Len(cartTable) :
              cartTable[i].userId = DEMO_USER
                => \E j \in 1..Len(res'.items) :
                     /\ res'.items[j].id = cartTable[i].productId
                     /\ res'.items[j].qty = cartTable[i].qty]_vars

====
